---- MODULE Spec2Model ----
(***************************************************************************)
(* A model of the option_strategy package: OptionLeg, Strategy, the P&L    *)
(* evaluation Strategy.pnl_at_expiry with _find_breakevens, the preset     *)
(* constructors, and the BlackScholes pricing object.                      *)
(*                                                                         *)
(* Numbers.  Python floats are modelled as exact rationals.  Strikes,      *)
(* premiums, quantities and the ends of a supplied spot range are          *)
(* integers.  A grid of spots and the P&L over it are sequences of integer *)
(* numerators over one common denominator, the "unit" u of the grid: the   *)
(* value v stands for the number v / u.  Breakevens, which the code rounds *)
(* to two decimals, are integers counted in hundredths.                    *)
(*                                                                         *)
(* Calls.  Every action is one call of the program.  `call` records the    *)
(* operation and its arguments, `ret` what it returned or raised, and      *)
(* `evaluations` what the callers of pnl_at_expiry on the current Strategy *)
(* have been handed so far.                                                *)
(*                                                                         *)
(* Objects.  Where several Strategy objects live side by side, `lists` is  *)
(* the sequence of Python list objects created so far, `strategies` the    *)
(* Strategy objects, each holding in its field legs the index of a list    *)
(* object, and `added` records, per Strategy, the legs it was constructed  *)
(* with followed by the legs handed to its add_leg, in call order.         *)
(***************************************************************************)
EXTENDS Integers, Sequences, FiniteSets, TLC

VARIABLES leg, strategy, bs, call, ret, evaluations, strategies, lists, added

vars == <<leg, strategy, bs, call, ret, evaluations, strategies, lists, added>>

(***************************************************************************)
(* Bounds of the model and the sets the inputs are drawn from.             *)
(***************************************************************************)
MaxLegs == 2

\* The number of Strategy objects alive side by side.
MaxStrategies == 3

MaxPoints == 4

MaxSpot == 4

MaxArrayLen == 2

FarSpot == 11

Strikes == {2, 4}

Premiums == {0, 1}

Quantities == {0, 1, 2}

OptionTypes == {"call", "put", "future"}

Positions == {"long", "short", "neutral"}

Spots == 0 .. MaxSpot

RangeEnds == {0, 2, 4}

(***************************************************************************)
(* Values: Python's None, a returned value, a raised exception.            *)
(***************************************************************************)
None == [kind |-> "None"]

Return(v) == [kind |-> "return", value |-> v]

Raise(e) == [kind |-> "raise", exc |-> e]

NoCall == [op |-> "none"]

(***************************************************************************)
(* Arithmetic helpers: Python's max, min, abs and sum; numpy's max and min *)
(* of an array.                                                            *)
(***************************************************************************)
Max2(a, b) == IF a >= b THEN a ELSE b

Min2(a, b) == IF a <= b THEN a ELSE b

Abs(a) == IF a < 0 THEN -a ELSE a

RECURSIVE SeqSum(_)
SeqSum(s) == IF s = <<>> THEN 0 ELSE s[1] + SeqSum(Tail(s))

\* The largest and the smallest element of a sequence that is not empty.
SeqMax(s) == CHOOSE m \in {s[i] : i \in 1 .. Len(s)} : \A i \in 1 .. Len(s) : Max2(m, s[i]) = m

SeqMin(s) == CHOOSE m \in {s[i] : i \in 1 .. Len(s)} : \A i \in 1 .. Len(s) : Min2(m, s[i]) = m

(***************************************************************************)
(* OptionLeg (strategy.py).                                                *)
(***************************************************************************)
\* The dataclass fields, as the generated __init__ stores them.
OptionLegFields(option_type, strike, position, premium, quantity) ==
    [option_type |-> option_type, strike |-> strike, position |-> position,
     premium |-> premium, quantity |-> quantity]

\* A mutant of OptionLegPostInit: the quantity check is off by one.
OptionLegPostInitLax(self) ==
    IF self.option_type \notin {"call", "put"} THEN Raise("ValueError")
    ELSE IF self.position \notin {"long", "short"} THEN Raise("ValueError")
    ELSE IF self.quantity < 0 THEN Raise("ValueError")
    ELSE Return(None)

\* OptionLeg.__post_init__: the three checks, in the order of the code.
OptionLegPostInit(self) ==
    IF self.option_type \notin {"call", "put"} THEN Raise("ValueError")
    ELSE IF self.position \notin {"long", "short"} THEN Raise("ValueError")
    ELSE IF self.quantity < 1 THEN Raise("ValueError")
    ELSE Return(None)

\* A mutant of direction: the sign of a short leg is lost.
directionAlwaysLong(self) == 1

\* OptionLeg.direction: +1 for long, -1 for anything else.
direction(self) == IF self.position = "long" THEN 1 ELSE -1

\* OptionLeg.payoff_at_expiry for a spot counted in units of 1/u.
payoff_at_expiry(self, spot, u) ==
    LET intrinsic == IF self.option_type = "call"
                     THEN Max2(spot - self.strike * u, 0)
                     ELSE Max2(self.strike * u - spot, 0)
    IN  direction(self) * (intrinsic - self.premium * u) * self.quantity

\* numpy's elementwise maximum of an array and a scalar.
np_maximum(arr, c) == [i \in 1 .. Len(arr) |-> IF arr[i] >= c THEN arr[i] ELSE c]

\* A mutant of payoff_array: the put branch uses the call's intrinsic value.
payoff_array_call_only(self, spots, u) ==
    LET intrinsic == np_maximum([i \in 1 .. Len(spots) |-> spots[i] - self.strike * u], 0)
    IN  [i \in 1 .. Len(spots) |->
            direction(self) * (intrinsic[i] - self.premium * u) * self.quantity]

\* OptionLeg.payoff_array: the vectorised payoff over an array of spots.
payoff_array(self, spots, u) ==
    LET intrinsic == IF self.option_type = "call"
                     THEN np_maximum([i \in 1 .. Len(spots) |-> spots[i] - self.strike * u], 0)
                     ELSE np_maximum([i \in 1 .. Len(spots) |-> self.strike * u - spots[i]], 0)
    IN  [i \in 1 .. Len(spots) |->
            direction(self) * (intrinsic[i] - self.premium * u) * self.quantity]

(***************************************************************************)
(* Strategy (strategy.py).                                                 *)
(***************************************************************************)
\* The dataclass Strategy: legs defaults to a fresh empty list.
Strategy(name) == [name |-> name, legs |-> <<>>]

\* Strategy.add_leg: append to the list of legs.
add_leg(self, l) == [self EXCEPT !.legs = Append(@, l)]

\* A mutant of net_premium: the quantity of a leg is not counted.
net_premium_per_contract(self) ==
    SeqSum([i \in 1 .. Len(self.legs) |->
              direction(self.legs[i]) * self.legs[i].premium])

\* Strategy.net_premium: Python's sum over the legs, in order.
net_premium(self) ==
    SeqSum([i \in 1 .. Len(self.legs) |->
              direction(self.legs[i]) * self.legs[i].premium * self.legs[i].quantity])

\* Python's round(x, 2) of the rational num / den (den > 0), in hundredths:
\* the nearest hundredth, a tie going to the even one.
Round2(num, den) ==
    LET q == (100 * num) \div den
        r == (100 * num) % den
    IN  IF 2 * r < den THEN q
        ELSE IF 2 * r > den THEN q + 1
        ELSE IF q % 2 = 0 THEN q ELSE q + 1

\* A mutant of Crossing: the middle of the pair, rounded.
CrossingMidpoint(spots, pnl, u, i) == Round2(spots[i] + spots[i + 1], 2 * u)

\* The zero crossing of the pair (i, i+1) by linear interpolation, rounded.
Crossing(spots, pnl, u, i) ==
    LET a == Abs(pnl[i])
        b == Abs(pnl[i + 1])
    IN  Round2(spots[i] * (a + b) + a * (spots[i + 1] - spots[i]), u * (a + b))

\* A mutant of the loop of _find_breakevens: the sign test is not strict.
FindBreakevensFromLax(spots, pnl, u, i, breakevens) ==
    LET pairs   == [k \in 1 .. Len(pnl) - i |-> i + k - 1]
        crossed == SelectSeq(pairs, LAMBDA j : /\ pnl[j] * pnl[j + 1] <= 0
                                               /\ Abs(pnl[j]) + Abs(pnl[j + 1]) > 0)
    IN  breakevens \o [k \in 1 .. Len(crossed) |-> Crossing(spots, pnl, u, crossed[k])]

\* The loop of _find_breakevens from index i on; breakevens is the list so
\* far.  The pairs i .. len(pnl) - 1 are visited from left to right, and each
\* pair whose product is negative appends its crossing.
FindBreakevensFrom(spots, pnl, u, i, breakevens) ==
    LET pairs   == [k \in 1 .. Len(pnl) - i |-> i + k - 1]
        crossed == SelectSeq(pairs, LAMBDA j : pnl[j] * pnl[j + 1] < 0)
    IN  breakevens \o [k \in 1 .. Len(crossed) |-> Crossing(spots, pnl, u, crossed[k])]

\* A mutant of _find_breakevens: each crossing is put in front of the list.
find_breakevens_prepend(spots, pnl, u) ==
    LET b == FindBreakevensFrom(spots, pnl, u, 1, <<>>)
    IN  [i \in 1 .. Len(b) |-> b[Len(b) + 1 - i]]

\* _find_breakevens: scan the adjacent pairs of the grid from left to right.
find_breakevens(spots, pnl, u) == FindBreakevensFrom(spots, pnl, u, 1, <<>>)

\* A mutant of np_linspace: the samples start one step after `start`.
np_linspace_shifted(start, stop, num) ==
    [i \in 1 .. num |-> start * (IF num > 1 THEN num - 1 ELSE 1) + i * (stop - start)]

\* numpy.linspace(start, stop, num) for num >= 0.  With start and stop in
\* units of 1/r, the grid is in units of 1/(r * LinspaceDiv(num)).
LinspaceDiv(num) == IF num > 1 THEN num - 1 ELSE 1

np_linspace(start, stop, num) ==
    [i \in 1 .. num |-> start * LinspaceDiv(num) + (i - 1) * (stop - start)]

\* A mutant of AutoSpotRange: the margin is the spread of the strikes alone.
AutoSpotRangeSpreadOnly(self) ==
    LET strikes == [i \in 1 .. Len(self.legs) |-> self.legs[i].strike]
        center  == 5 * SeqSum(strikes)
        spread  == (SeqMax(strikes) - SeqMin(strikes)) * 5 * Len(self.legs)
    IN  <<center - spread, center + spread>>

\* The range pnl_at_expiry derives when none is given, in units of
\* 1/AutoUnit: center - margin and center + margin, with center the mean of
\* the strikes and margin the larger of their spread and 0.2 * center.
AutoUnit(self) == 5 * Len(self.legs)

AutoSpotRange(self) ==
    LET strikes == [i \in 1 .. Len(self.legs) |-> self.legs[i].strike]
        center  == 5 * SeqSum(strikes)
        spread  == (SeqMax(strikes) - SeqMin(strikes)) * AutoUnit(self)
        margin  == Max2(spread, SeqSum(strikes))
    IN  <<center - margin, center + margin>>

\* A mutant of TotalPnl: each leg overwrites the total instead of adding to it.
RECURSIVE TotalPnlOverwritten(_, _, _, _)
TotalPnlOverwritten(legs, spots, u, total_pnl) ==
    IF legs = <<>> THEN total_pnl
    ELSE TotalPnlOverwritten(Tail(legs), spots, u, payoff_array(Head(legs), spots, u))

\* The loop "for leg in self.legs: total_pnl += leg.payoff_array(spots)".
RECURSIVE TotalPnl(_, _, _, _)
TotalPnl(legs, spots, u, total_pnl) ==
    IF legs = <<>> THEN total_pnl
    ELSE LET p == payoff_array(Head(legs), spots, u)
         IN  TotalPnl(Tail(legs), spots, u,
                      [i \in 1 .. Len(spots) |-> total_pnl[i] + p[i]])

\* A mutant of PnLResult: the extrema are read at the ends of the grid.
PnLResultAtEnds(u, spots, total_pnl) ==
    Return([unit       |-> u,
            spots      |-> spots,
            pnl        |-> total_pnl,
            max_profit |-> Max2(total_pnl[1], total_pnl[Len(total_pnl)]),
            max_loss   |-> Min2(total_pnl[1], total_pnl[Len(total_pnl)]),
            breakevens |-> find_breakevens(spots, total_pnl, u)])

\* The end of pnl_at_expiry: the extrema, the breakevens and the PnLResult.
PnLResult(u, spots, total_pnl) ==
    Return([unit       |-> u,
            spots      |-> spots,
            pnl        |-> total_pnl,
            max_profit |-> SeqMax(total_pnl),
            max_loss   |-> SeqMin(total_pnl),
            breakevens |-> find_breakevens(spots, total_pnl, u)])

\* The middle of pnl_at_expiry: the P&L of the legs summed over the grid.
PnlGrid(self, u, spots) ==
    PnLResult(u, spots, TotalPnl(self.legs, spots, u, [i \in 1 .. Len(spots) |-> 0]))

\* Strategy.pnl_at_expiry after its first check.  spot_range is None or a
\* pair of integers.  numpy raises ValueError for a negative number of
\* samples (linspace) and for the maximum of an empty array (num_points = 0).
pnl_body(self, spot_range, num_points) ==
    LET r   == IF spot_range = None THEN AutoUnit(self) ELSE 1
        rng == IF spot_range = None THEN AutoSpotRange(self) ELSE spot_range
    IN  IF num_points < 0 THEN Raise("ValueError")
        ELSE IF num_points = 0 THEN Raise("ValueError")
        ELSE PnlGrid(self, r * LinspaceDiv(num_points),
                     np_linspace(rng[1], rng[2], num_points))

\* A mutant of pnl_at_expiry: the check for an empty list of legs is missing,
\* and the mean of no strikes divides by zero.
pnl_at_expiry_unchecked(self, spot_range, num_points) ==
    IF self.legs = <<>> /\ spot_range = None THEN Raise("ZeroDivisionError")
    ELSE pnl_body(self, spot_range, num_points)

\* Strategy.pnl_at_expiry.
pnl_at_expiry(self, spot_range, num_points) ==
    IF self.legs = <<>> THEN Raise("ValueError")
    ELSE pnl_body(self, spot_range, num_points)

\* A mutant of pnl_at_expiry_self: the legs are put in the order of their
\* strikes in place, the first two being exchanged when out of order.
pnl_at_expiry_sorts_legs(self, spot_range, num_points) ==
    IF Len(self.legs) >= 2 /\ self.legs[1].strike > self.legs[2].strike
    THEN [self EXCEPT !.legs = [i \in 1 .. Len(self.legs) |->
                                   IF i = 1 THEN self.legs[2]
                                   ELSE IF i = 2 THEN self.legs[1]
                                   ELSE self.legs[i]]]
    ELSE self

\* The Strategy object after pnl_at_expiry has returned or raised.  The method
\* assigns to no attribute of self or of a leg: spots and total_pnl are local
\* arrays, strikes is a new list, and payoff_array builds new arrays.
pnl_at_expiry_self(self, spot_range, num_points) == self

(***************************************************************************)
(* Preset constructors (strategy.py).  quantity defaults to 1.             *)
(***************************************************************************)
long_call(spot, strike, premium) ==
    add_leg(Strategy("Long Call"), OptionLegFields("call", strike, "long", premium, 1))

long_put(spot, strike, premium) ==
    add_leg(Strategy("Long Put"), OptionLegFields("put", strike, "long", premium, 1))

bull_call_spread(spot, lower_strike, upper_strike, lower_premium, upper_premium) ==
    LET s0 == Strategy("Bull Call Spread")
        s1 == add_leg(s0, OptionLegFields("call", lower_strike, "long", lower_premium, 1))
    IN  add_leg(s1, OptionLegFields("call", upper_strike, "short", upper_premium, 1))

bear_put_spread(spot, lower_strike, upper_strike, lower_premium, upper_premium) ==
    LET s0 == Strategy("Bear Put Spread")
        s1 == add_leg(s0, OptionLegFields("put", upper_strike, "long", upper_premium, 1))
    IN  add_leg(s1, OptionLegFields("put", lower_strike, "short", lower_premium, 1))

\* A mutant of straddle: the second leg is a call too.
straddle_two_calls(spot, strike, call_premium, put_premium) ==
    LET s0 == Strategy("Long Straddle")
        s1 == add_leg(s0, OptionLegFields("call", strike, "long", call_premium, 1))
    IN  add_leg(s1, OptionLegFields("call", strike, "long", put_premium, 1))

straddle(spot, strike, call_premium, put_premium) ==
    LET s0 == Strategy("Long Straddle")
        s1 == add_leg(s0, OptionLegFields("call", strike, "long", call_premium, 1))
    IN  add_leg(s1, OptionLegFields("put", strike, "long", put_premium, 1))

strangle(spot, call_strike, put_strike, call_premium, put_premium) ==
    LET s0 == Strategy("Long Strangle")
        s1 == add_leg(s0, OptionLegFields("call", call_strike, "long", call_premium, 1))
    IN  add_leg(s1, OptionLegFields("put", put_strike, "long", put_premium, 1))

iron_condor(spot, put_lower, put_upper, call_lower, call_upper, put_lower_prem, put_upper_prem, call_lower_prem, call_upper_prem) ==
    LET s0 == Strategy("Iron Condor")
        s1 == add_leg(s0, OptionLegFields("put", put_lower, "long", put_lower_prem, 1))
        s2 == add_leg(s1, OptionLegFields("put", put_upper, "short", put_upper_prem, 1))
        s3 == add_leg(s2, OptionLegFields("call", call_lower, "short", call_lower_prem, 1))
    IN  add_leg(s3, OptionLegFields("call", call_upper, "long", call_upper_prem, 1))

\* A mutant of butterfly_spread: the middle leg has the default quantity.
butterfly_spread_single(spot, lower, middle, upper, lower_prem, middle_prem, upper_prem) ==
    LET s0 == Strategy("Butterfly Spread")
        s1 == add_leg(s0, OptionLegFields("call", lower, "long", lower_prem, 1))
        s2 == add_leg(s1, OptionLegFields("call", middle, "short", middle_prem, 1))
    IN  add_leg(s2, OptionLegFields("call", upper, "long", upper_prem, 1))

butterfly_spread(spot, lower, middle, upper, lower_prem, middle_prem, upper_prem) ==
    LET s0 == Strategy("Butterfly Spread")
        s1 == add_leg(s0, OptionLegFields("call", lower, "long", lower_prem, 1))
        s2 == add_leg(s1, OptionLegFields("call", middle, "short", middle_prem, 2))
    IN  add_leg(s2, OptionLegFields("call", upper, "long", upper_prem, 1))

(***************************************************************************)
(* BlackScholes (pricing.py).  spot, strike, volatility and rate are       *)
(* integers; expiry_days is an integer number of days, and time_to_expiry  *)
(* (expiry_days / 365.0) is counted in units of 1/365.  A value computed   *)
(* on a boundary branch (t <= 0) is exact and carried as Exact(v).  The    *)
(* value of a closed-form expression (logarithm, square root, normal cdf   *)
(* and pdf) is not computed: it is carried as General(f), which records    *)
(* that the general formula f was evaluated.                               *)
(***************************************************************************)
Exact(v) == [path |-> "boundary", value |-> v]

General(f) == [path |-> "general", formula |-> f]

\* BlackScholes.__init__.
BlackScholes(spot, strike, expiry_days, volatility, rate) ==
    [spot |-> spot, strike |-> strike, expiry_days |-> expiry_days,
     volatility |-> volatility, rate |-> rate, time_to_expiry |-> expiry_days]

\* BlackScholes._d1.  With t > 0 the expression divides by strike, takes the
\* logarithm of spot / strike and divides by volatility * sqrt(t), in this order.
bs_d1(self) ==
    IF self.time_to_expiry <= 0
    THEN Return(Exact(IF self.spot > self.strike THEN "inf" ELSE "-inf"))
    ELSE IF self.strike = 0 THEN Raise("ZeroDivisionError")
    ELSE IF self.spot * self.strike <= 0 THEN Raise("ValueError")
    ELSE IF self.volatility = 0 THEN Raise("ZeroDivisionError")
    ELSE Return(General("d1"))

\* BlackScholes._d2.
bs_d2(self) ==
    IF self.time_to_expiry <= 0 THEN bs_d1(self)
    ELSE IF bs_d1(self).kind = "raise" THEN bs_d1(self)
    ELSE Return(General("d2"))

\* "d1, d2 = self._d1(), self._d2()": the first exception raised, or None.
bs_d1_d2(self) ==
    IF bs_d1(self).kind = "raise" THEN bs_d1(self)
    ELSE IF bs_d2(self).kind = "raise" THEN bs_d2(self)
    ELSE Return(None)

\* A mutant of call_price: the boundary test is t < 0.
call_price_strict(self) ==
    IF self.time_to_expiry < 0 THEN Return(Exact(Max2(self.spot - self.strike, 0)))
    ELSE IF bs_d1_d2(self).kind = "raise" THEN bs_d1_d2(self)
    ELSE Return(General("call_price"))

\* BlackScholes.call_price.
call_price(self) ==
    IF self.time_to_expiry <= 0 THEN Return(Exact(Max2(self.spot - self.strike, 0)))
    ELSE IF bs_d1_d2(self).kind = "raise" THEN bs_d1_d2(self)
    ELSE Return(General("call_price"))

\* BlackScholes.put_price.
put_price(self) ==
    IF self.time_to_expiry <= 0 THEN Return(Exact(Max2(self.strike - self.spot, 0)))
    ELSE IF bs_d1_d2(self).kind = "raise" THEN bs_d1_d2(self)
    ELSE Return(General("put_price"))

\* BlackScholes.price.
price(self, option_type) ==
    IF option_type = "call" THEN call_price(self)
    ELSE IF option_type = "put" THEN put_price(self)
    ELSE Raise("ValueError")

\* BlackScholes.delta.
delta(self, option_type) ==
    IF self.time_to_expiry <= 0
    THEN IF option_type = "call"
         THEN Return(Exact(IF self.spot > self.strike THEN 1 ELSE 0))
         ELSE Return(Exact(IF self.spot < self.strike THEN -1 ELSE 0))
    ELSE IF bs_d1(self).kind = "raise" THEN bs_d1(self)
    ELSE IF option_type = "call" THEN Return(General("delta_call"))
    ELSE IF option_type = "put" THEN Return(General("delta_put"))
    ELSE Raise("ValueError")

\* BlackScholes.gamma.  The quotient divides by spot * volatility * sqrt(t),
\* which _d1 has found non-zero.
gamma(self) ==
    IF self.time_to_expiry <= 0 THEN Return(Exact(0))
    ELSE IF bs_d1(self).kind = "raise" THEN bs_d1(self)
    ELSE Return(General("gamma"))

\* BlackScholes.theta.
theta(self, option_type) ==
    IF self.time_to_expiry <= 0 THEN Return(Exact(0))
    ELSE IF bs_d1_d2(self).kind = "raise" THEN bs_d1_d2(self)
    ELSE IF option_type = "call" THEN Return(General("theta_call"))
    ELSE IF option_type = "put" THEN Return(General("theta_put"))
    ELSE Raise("ValueError")

\* BlackScholes.vega.
vega(self) ==
    IF self.time_to_expiry <= 0 THEN Return(Exact(0))
    ELSE IF bs_d1(self).kind = "raise" THEN bs_d1(self)
    ELSE Return(General("vega"))

\* BlackScholes.rho.
rho(self, option_type) ==
    IF self.time_to_expiry <= 0 THEN Return(Exact(0))
    ELSE IF bs_d2(self).kind = "raise" THEN bs_d2(self)
    ELSE IF option_type = "call" THEN Return(General("rho_call"))
    ELSE IF option_type = "put" THEN Return(General("rho_put"))
    ELSE Raise("ValueError")

\* BlackScholes.greeks: the dict display evaluates delta, gamma, theta, vega
\* and rho in this order; the first exception propagates.
greeks(self, option_type) ==
    IF delta(self, option_type).kind = "raise" THEN delta(self, option_type)
    ELSE IF gamma(self).kind = "raise" THEN gamma(self)
    ELSE IF theta(self, option_type).kind = "raise" THEN theta(self, option_type)
    ELSE IF vega(self).kind = "raise" THEN vega(self)
    ELSE IF rho(self, option_type).kind = "raise" THEN rho(self, option_type)
    ELSE Return([delta |-> delta(self, option_type).value,
                 gamma |-> gamma(self).value,
                 theta |-> theta(self, option_type).value,
                 vega  |-> vega(self).value,
                 rho   |-> rho(self, option_type).value])

\* BlackScholes.summary: price first, then the Greeks.
summary(self, option_type) ==
    IF price(self, option_type).kind = "raise" THEN price(self, option_type)
    ELSE IF greeks(self, option_type).kind = "raise" THEN greeks(self, option_type)
    ELSE LET g == greeks(self, option_type).value
         IN  Return([price |-> price(self, option_type).value,
                     delta |-> g.delta, gamma |-> g.gamma, theta |-> g.theta,
                     vega  |-> g.vega, rho |-> g.rho])

(***************************************************************************)
(* The command line (__main__.py).  args is the namespace argparse returns: *)
(* strategy, spot, strikes (a list), expiry, volatility, rate and greeks.   *)
(***************************************************************************)
\* The keys of STRATEGIES, which are the choices of --strategy.
StrategyKinds ==
    {"long_call", "long_put", "bull_call_spread", "bear_put_spread",
     "straddle", "strangle", "iron_condor", "butterfly"}

\* sys.exit(status) after a diagnostic on the error stream.
Exit(status, stderr) == [kind |-> "exit", status |-> status, stderr |-> stderr]

\* The default of num_points in pnl_at_expiry, which main relies on.
DefaultNumPoints == 500

\* parser.parse_args(): argparse rejects a strategy that is not among the
\* choices and an empty list of strikes (nargs="+") with status 2.
parse_args(args) ==
    IF args.strategy \notin StrategyKinds
    THEN Exit(2, "argument --strategy/-s: invalid choice")
    ELSE IF Len(args.strikes) = 0
    THEN Exit(2, "argument --strikes: expected at least one argument")
    ELSE Return(args)

\* The first loop of build_strategy: one BlackScholes object for each strike.
bs_models(args) ==
    [i \in 1 .. Len(args.strikes) |->
        BlackScholes(args.spot, args.strikes[i], args.expiry, args.volatility, args.rate)]

\* The premiums a branch of build_strategy computes, in its order, and the
\* Strategy built from them: the first exception raised by a price
\* propagates, otherwise the Strategy is returned.
Priced(prices, s) ==
    IF \E k \in 1 .. Len(prices) : prices[k].kind = "raise"
    THEN prices[CHOOSE k \in 1 .. Len(prices) :
                    /\ prices[k].kind = "raise"
                    /\ \A j \in 1 .. k - 1 : prices[j].kind = "return"]
    ELSE Return(s)

\* The branches of build_strategy after the loop.  models[k] is bs_models[k-1]
\* of the source and strikes[k] is strikes[k-1].
build_strategy_branch(args, models) ==
    LET name    == args.strategy
        strikes == args.strikes
        c(k)    == call_price(models[k])
        p(k)    == put_price(models[k])
    IN  CASE name = "long_call" ->
               IF Len(strikes) < 1 THEN Raise("IndexError")
               ELSE Priced(<<c(1)>>, long_call(args.spot, strikes[1], c(1).value.value))
          [] name = "long_put" ->
               IF Len(strikes) < 1 THEN Raise("IndexError")
               ELSE Priced(<<p(1)>>, long_put(args.spot, strikes[1], p(1).value.value))
          [] name = "bull_call_spread" ->
               IF Len(strikes) < 2
               THEN Exit(1, "Error: bull_call_spread requires 2 strikes")
               ELSE Priced(<<c(1), c(2)>>,
                           bull_call_spread(args.spot, strikes[1], strikes[2],
                                            c(1).value.value, c(2).value.value))
          [] name = "bear_put_spread" ->
               IF Len(strikes) < 2
               THEN Exit(1, "Error: bear_put_spread requires 2 strikes")
               ELSE Priced(<<p(1), p(2)>>,
                           bear_put_spread(args.spot, strikes[1], strikes[2],
                                           p(1).value.value, p(2).value.value))
          [] name = "straddle" ->
               IF Len(strikes) < 1 THEN Raise("IndexError")
               ELSE Priced(<<c(1), p(1)>>,
                           straddle(args.spot, strikes[1],
                                    c(1).value.value, p(1).value.value))
          [] name = "strangle" ->
               IF Len(strikes) < 2
               THEN Exit(1, "Error: strangle requires 2 strikes")
               ELSE Priced(<<c(2), p(1)>>,
                           strangle(args.spot, strikes[2], strikes[1],
                                    c(2).value.value, p(1).value.value))
          [] name = "iron_condor" ->
               IF Len(strikes) < 4
               THEN Exit(1, "Error: iron_condor requires 4 strikes")
               ELSE Priced(<<p(1), p(2), c(3), c(4)>>,
                           iron_condor(args.spot, strikes[1], strikes[2], strikes[3],
                                       strikes[4], p(1).value.value, p(2).value.value,
                                       c(3).value.value, c(4).value.value))
          [] name = "butterfly" ->
               IF Len(strikes) < 3
               THEN Exit(1, "Error: butterfly requires 3 strikes")
               ELSE Priced(<<c(1), c(2), c(3)>>,
                           butterfly_spread(args.spot, strikes[1], strikes[2], strikes[3],
                                            c(1).value.value, c(2).value.value,
                                            c(3).value.value))
          [] OTHER -> Exit(1, "Error: unknown strategy")

(***************************************************************************)
(* The calls of OptionLeg: construction and the two payoff functions.      *)
(***************************************************************************)
\* OptionLeg(option_type, strike, position, premium, quantity): the fields
\* are stored, then __post_init__ runs; when it raises, no object is bound.
NewOptionLeg(option_type, strike, position, premium, quantity) ==
    LET self == OptionLegFields(option_type, strike, position, premium, quantity)
        r    == OptionLegPostInit(self)
    IN  /\ call' = [op |-> "OptionLeg", args |-> self]
        /\ ret' = IF r.kind = "raise" THEN r ELSE Return(self)
        /\ leg' = IF r.kind = "raise" THEN leg ELSE self
        /\ UNCHANGED <<strategy, bs, evaluations, strategies, lists, added>>

\* leg.payoff_at_expiry(spot)
LegPayoffAtExpiry(spot) ==
    /\ leg # None
    /\ call' = [op |-> "payoff_at_expiry", spot |-> spot]
    /\ ret' = Return(payoff_at_expiry(leg, spot, 1))
    /\ UNCHANGED <<leg, strategy, bs, evaluations, strategies, lists, added>>

\* leg.payoff_array(spots)
LegPayoffArray(spots) ==
    /\ leg # None
    /\ call' = [op |-> "payoff_array", spots |-> spots]
    /\ ret' = Return(payoff_array(leg, spots, 1))
    /\ UNCHANGED <<leg, strategy, bs, evaluations, strategies, lists, added>>

\* The arrays of spots handed to payoff_array.
SpotArrays == UNION {[1 .. n -> Spots] : n \in 0 .. MaxArrayLen}

\* Before any object is constructed.
InitLeg ==
    /\ leg = None
    /\ strategy = None
    /\ bs = None
    /\ call = NoCall
    /\ ret = None
    /\ evaluations = {}
    /\ strategies = <<>>
    /\ lists = <<>>
    /\ added = <<>>

NextLeg ==
    \/ \E t \in OptionTypes, k \in Strikes, p \in Positions, pr \in Premiums, q \in Quantities :
          NewOptionLeg(t, k, p, pr, q)
    \/ \E spot \in Spots : LegPayoffAtExpiry(spot)
    \/ \E spots \in SpotArrays : LegPayoffArray(spots)

SpecLeg == InitLeg /\ [][NextLeg]_vars

\* leg.<field> = value.  OptionLeg is a dataclass that is not frozen: its
\* fields are plain attributes, and an assignment stores the value without
\* running __post_init__ again.
SetLegField(f, value) ==
    /\ leg # None
    /\ leg' = [leg EXCEPT ![f] = value]
    /\ call' = [op |-> "setattr", field |-> f]
    /\ ret' = Return(None)
    /\ UNCHANGED <<strategy, bs, evaluations, strategies, lists, added>>

\* The calls of OptionLeg together with the assignments to its fields.
NextLegFields ==
    \/ \E t \in OptionTypes, k \in Strikes, p \in Positions, pr \in Premiums, q \in Quantities :
          NewOptionLeg(t, k, p, pr, q)
    \/ \E spot \in Spots : LegPayoffAtExpiry(spot)
    \/ \E t \in OptionTypes : SetLegField("option_type", t)
    \/ \E p \in Positions : SetLegField("position", p)
    \/ \E q \in Quantities : SetLegField("quantity", q)
    \/ \E k \in Strikes : SetLegField("strike", k)
    \/ \E pr \in Premiums : SetLegField("premium", pr)

SpecLegFields == InitLeg /\ [][NextLegFields]_vars

(***************************************************************************)
(* The calls of Strategy: construction, add_leg and pnl_at_expiry.  A run   *)
(* builds a strategy and evaluates it: after pnl_at_expiry has returned or *)
(* raised, the next call constructs a new Strategy.                        *)
(***************************************************************************)
\* The OptionLeg objects that exist: those whose construction returned.
Legs ==
    {l \in [option_type : OptionTypes, strike : Strikes, position : Positions,
            premium : Premiums, quantity : Quantities] :
        OptionLegPostInit(l).kind = "return"}

\* The spot ranges handed to pnl_at_expiry: none, or a pair of spots.
SpotRanges == {None} \cup (RangeEnds \X RangeEnds)

\* The numbers of points handed to pnl_at_expiry.
NumPoints == -1 .. MaxPoints

\* What one caller of pnl_at_expiry holds: the arguments it passed (the empty
\* tuple for a spot_range of None) and the PnLResult it was returned, or the
\* exception raised.
Evaluation(spot_range, num_points, result) ==
    [spot_range |-> IF spot_range = None THEN <<>> ELSE spot_range,
     num_points |-> num_points, ret |-> result]

\* Strategy(name)
NewStrategy(name) ==
    /\ strategy' = Strategy(name)
    /\ call' = [op |-> "Strategy", name |-> name]
    /\ ret' = Return(None)
    /\ evaluations' = {}
    /\ UNCHANGED <<leg, bs, strategies, lists, added>>

\* strategy.add_leg(l)
AddLeg(l) ==
    /\ call.op # "pnl_at_expiry"
    /\ Len(strategy.legs) < MaxLegs
    /\ strategy' = add_leg(strategy, l)
    /\ call' = [op |-> "add_leg", leg |-> l]
    /\ ret' = Return(None)
    /\ UNCHANGED <<leg, bs, evaluations, strategies, lists, added>>

\* strategy.pnl_at_expiry(spot_range, num_points)
PnlAtExpiry(spot_range, num_points) ==
    /\ strategy # None
    /\ call.op # "pnl_at_expiry"
    /\ call' = [op |-> "pnl_at_expiry", spot_range |-> spot_range,
                num_points |-> num_points]
    /\ ret' = pnl_at_expiry(strategy, spot_range, num_points)
    /\ evaluations' = evaluations \cup {Evaluation(spot_range, num_points, ret')}
    /\ UNCHANGED <<leg, strategy, bs, strategies, lists, added>>

Init ==
    /\ leg = None
    /\ strategy = Strategy("Test")
    /\ bs = None
    /\ call = [op |-> "Strategy", name |-> "Test"]
    /\ ret = Return(None)
    /\ evaluations = {}
    /\ strategies = <<>>
    /\ lists = <<>>
    /\ added = <<>>

\* Build and evaluate: the legs added have the default quantity 1.
Next ==
    \/ NewStrategy("Test")
    \/ \E l \in {x \in Legs : x.quantity = 1} : AddLeg(l)
    \/ \E spot_range \in SpotRanges, num_points \in NumPoints :
          PnlAtExpiry(spot_range, num_points)

Spec == Init /\ [][Next]_vars

\* Build only: legs of every quantity, and no evaluation.
NextBuild ==
    \/ NewStrategy("Test")
    \/ \E l \in Legs : AddLeg(l)

SpecBuild == Init /\ [][NextBuild]_vars

\* strategy.pnl_at_expiry(spot_range, num_points) on a Strategy that several
\* callers share: any number of evaluations, in any order, each caller
\* keeping what it was handed.
SharedPnlAtExpiry(spot_range, num_points) ==
    /\ strategy # None
    /\ call' = [op |-> "pnl_at_expiry", spot_range |-> spot_range,
                num_points |-> num_points]
    /\ ret' = pnl_at_expiry(strategy, spot_range, num_points)
    /\ strategy' = pnl_at_expiry_self(strategy, spot_range, num_points)
    /\ evaluations' = evaluations \cup {Evaluation(spot_range, num_points, ret')}
    /\ UNCHANGED <<leg, bs, strategies, lists, added>>

\* The legs, spot ranges and numbers of points of the shared runs.
SharedLegs == {l \in Legs : l.quantity = 1 /\ l.premium = 1}

SharedRanges == {None, <<0, 2 * MaxSpot>>}

SharedNumPoints == {0, 3}

\* Build a Strategy, then evaluate it again and again.
NextShared ==
    \/ NewStrategy("Test")
    \/ \E l \in SharedLegs : AddLeg(l)
    \/ \E spot_range \in SharedRanges, num_points \in SharedNumPoints :
          SharedPnlAtExpiry(spot_range, num_points)

SpecShared == Init /\ [][NextShared]_vars

\* The legs, spot ranges and numbers of points of the runs on a fine grid: a
\* range one wide, sampled at 104 points, has a spacing below a hundredth.
FineLegs == {l \in Legs : l.premium + l.quantity <= 2}

CoarseRanges == {None, <<0, 4>>}

FineRanges == {<<2, 3>>, <<3, 2>>}

\* Build a Strategy and evaluate it, on a coarse or on a fine grid.
NextFine ==
    \/ NewStrategy("Test")
    \/ \E l \in FineLegs : AddLeg(l)
    \/ \E spot_range \in CoarseRanges : PnlAtExpiry(spot_range, 3)
    \/ \E spot_range \in FineRanges : PnlAtExpiry(spot_range, 104)

SpecFine == Init /\ [][NextFine]_vars

(***************************************************************************)
(* The presets: a run calls one preset constructor and evaluates the       *)
(* Strategy it returns.                                                    *)
(***************************************************************************)
\* bull_call_spread(spot, lower_strike, upper_strike, lower_premium, upper_premium)
BullCallSpread(spot, lower_strike, upper_strike, lower_premium, upper_premium) ==
    /\ strategy = None
    /\ strategy' = bull_call_spread(spot, lower_strike, upper_strike,
                                    lower_premium, upper_premium)
    /\ call' = [op |-> "bull_call_spread", spot |-> spot,
                lower_strike |-> lower_strike, upper_strike |-> upper_strike,
                lower_premium |-> lower_premium, upper_premium |-> upper_premium]
    /\ ret' = Return(None)
    /\ UNCHANGED <<leg, bs, evaluations, strategies, lists, added>>

\* straddle(spot, strike, call_premium, put_premium)
Straddle(spot, strike, call_premium, put_premium) ==
    /\ strategy = None
    /\ strategy' = straddle(spot, strike, call_premium, put_premium)
    /\ call' = [op |-> "straddle", spot |-> spot, strike |-> strike,
                call_premium |-> call_premium, put_premium |-> put_premium]
    /\ ret' = Return(None)
    /\ UNCHANGED <<leg, bs, evaluations, strategies, lists, added>>

\* The spot ranges of the preset runs: none, or a pair of spots whose upper
\* end may lie far above every strike.
PresetRanges == {None} \cup (Spots \X (Spots \cup {FarSpot}))

NextPreset ==
    \/ \E spot \in Strikes, k1 \in Strikes, k2 \in Strikes, p1 \in Premiums, p2 \in Premiums :
          BullCallSpread(spot, k1, k2, p1, p2)
    \/ \E spot \in Strikes, k \in Strikes, p1 \in Premiums, p2 \in Premiums :
          Straddle(spot, k, p1, p2)
    \/ \E spot_range \in PresetRanges, num_points \in NumPoints :
          PnlAtExpiry(spot_range, num_points)

SpecPreset == InitLeg /\ [][NextPreset]_vars

\* A call of a preset constructor: `args` are its arguments under the names
\* of the source, `s` the Strategy it returns.
PresetCall(op, args, s) ==
    /\ strategy = None
    /\ strategy' = s
    /\ call' = [op |-> op, args |-> args]
    /\ ret' = Return(None)
    /\ UNCHANGED <<leg, bs, evaluations, strategies, lists, added>>

\* long_call(spot, strike, premium)
LongCall(spot, strike_, premium) ==
    PresetCall("long_call", [spot |-> spot, strike |-> strike_, premium |-> premium],
               long_call(spot, strike_, premium))

\* long_put(spot, strike, premium)
LongPut(spot, strike_, premium) ==
    PresetCall("long_put", [spot |-> spot, strike |-> strike_, premium |-> premium],
               long_put(spot, strike_, premium))

\* bear_put_spread(spot, lower_strike, upper_strike, lower_premium, upper_premium)
BearPutSpread(spot, lower_strike, upper_strike, lower_premium, upper_premium) ==
    PresetCall("bear_put_spread",
               [spot |-> spot, lower_strike |-> lower_strike, upper_strike |-> upper_strike,
                lower_premium |-> lower_premium, upper_premium |-> upper_premium],
               bear_put_spread(spot, lower_strike, upper_strike, lower_premium, upper_premium))

\* strangle(spot, call_strike, put_strike, call_premium, put_premium)
Strangle(spot, call_strike, put_strike, call_premium, put_premium) ==
    PresetCall("strangle",
               [spot |-> spot, call_strike |-> call_strike, put_strike |-> put_strike,
                call_premium |-> call_premium, put_premium |-> put_premium],
               strangle(spot, call_strike, put_strike, call_premium, put_premium))

\* iron_condor(spot, put_lower, put_upper, call_lower, call_upper,
\*             put_lower_prem, put_upper_prem, call_lower_prem, call_upper_prem)
IronCondor(spot, put_lower, put_upper, call_lower, call_upper, put_lower_prem, put_upper_prem, call_lower_prem, call_upper_prem) ==
    PresetCall("iron_condor",
               [spot |-> spot, put_lower |-> put_lower, put_upper |-> put_upper,
                call_lower |-> call_lower, call_upper |-> call_upper,
                put_lower_prem |-> put_lower_prem, put_upper_prem |-> put_upper_prem,
                call_lower_prem |-> call_lower_prem, call_upper_prem |-> call_upper_prem],
               iron_condor(spot, put_lower, put_upper, call_lower, call_upper,
                           put_lower_prem, put_upper_prem, call_lower_prem, call_upper_prem))

\* butterfly_spread(spot, lower, middle, upper, lower_prem, middle_prem, upper_prem)
ButterflySpread(spot, lower, middle, upper, lower_prem, middle_prem, upper_prem) ==
    PresetCall("butterfly_spread",
               [spot |-> spot, lower |-> lower, middle |-> middle, upper |-> upper,
                lower_prem |-> lower_prem, middle_prem |-> middle_prem,
                upper_prem |-> upper_prem],
               butterfly_spread(spot, lower, middle, upper, lower_prem, middle_prem, upper_prem))

\* The premiums handed to the presets: a negative one too.
PresetPremiums == Premiums \cup {-1}

\* The eight presets, each called with strikes in any order and any premiums.
NextPresetBuild ==
    \/ \E spot \in Strikes, k \in Strikes, p \in PresetPremiums : LongCall(spot, k, p)
    \/ \E spot \in Strikes, k \in Strikes, p \in PresetPremiums : LongPut(spot, k, p)
    \/ \E spot \in Strikes, k1 \in Strikes, k2 \in Strikes,
          p1 \in PresetPremiums, p2 \in PresetPremiums :
          BullCallSpread(spot, k1, k2, p1, p2)
    \/ \E spot \in Strikes, k1 \in Strikes, k2 \in Strikes,
          p1 \in PresetPremiums, p2 \in PresetPremiums :
          BearPutSpread(spot, k1, k2, p1, p2)
    \/ \E spot \in Strikes, k \in Strikes, p1 \in PresetPremiums, p2 \in PresetPremiums :
          Straddle(spot, k, p1, p2)
    \/ \E spot \in Strikes, k1 \in Strikes, k2 \in Strikes,
          p1 \in PresetPremiums, p2 \in PresetPremiums :
          Strangle(spot, k1, k2, p1, p2)
    \/ \E spot \in Strikes, k1 \in Strikes, k2 \in Strikes, k3 \in Strikes, k4 \in Strikes,
          p1 \in PresetPremiums, p2 \in PresetPremiums,
          p3 \in PresetPremiums, p4 \in PresetPremiums :
          IronCondor(spot, k1, k2, k3, k4, p1, p2, p3, p4)
    \/ \E spot \in Strikes, k1 \in Strikes, k2 \in Strikes, k3 \in Strikes,
          p1 \in PresetPremiums, p2 \in PresetPremiums, p3 \in PresetPremiums :
          ButterflySpread(spot, k1, k2, k3, p1, p2, p3)

SpecPresetBuild == InitLeg /\ [][NextPresetBuild]_vars

(***************************************************************************)
(* Several Strategy objects side by side.  Strategy is a dataclass: its    *)
(* generated __init__ binds the field legs to the list object it is        *)
(* handed, or to a new empty list from the default factory when none is    *)
(* handed; add_leg appends to the list object the field refers to.         *)
(***************************************************************************)
\* The names of the Strategy objects built side by side.
StrategyNames == {"Test"}

\* The legs handed to the Strategy objects built side by side.
OwnedLegs == {l \in Legs : l.quantity = 1 /\ l.premium = 1 /\ l.strike = 2 /\ l.position = "long"}

\* The list literals handed to Strategy(name, legs).
LegLists == UNION {[1 .. n -> OwnedLegs] : n \in 0 .. 1}

\* Strategy.__init__(self, name, legs): the fields are bound to the arguments;
\* legs is the identity of a list object, not a copy of its elements.
StrategyInit(name, legs) == [name |-> name, legs |-> legs]

\* list.append(x) on the list object ref.
list_append(ref, x) == [lists EXCEPT ![ref] = Append(@, x)]

\* s.legs read through the Strategy object s: the elements of its list object.
LegsOf(s) == lists[strategies[s].legs]

\* Strategy(name): the default factory creates a new empty list object.
NewStrategyDefault(name) ==
    /\ Len(strategies) < MaxStrategies
    /\ lists' = Append(lists, <<>>)
    /\ strategies' = Append(strategies, StrategyInit(name, Len(lists) + 1))
    /\ added' = Append(added, <<>>)
    /\ call' = [op |-> "Strategy", name |-> name]
    /\ ret' = Return(None)
    /\ UNCHANGED <<leg, strategy, bs, evaluations>>

\* Strategy(name, [l1, ...]): the list literal is a new list object.
NewStrategyWithLegs(name, legs) ==
    /\ Len(strategies) < MaxStrategies
    /\ lists' = Append(lists, legs)
    /\ strategies' = Append(strategies, StrategyInit(name, Len(lists) + 1))
    /\ added' = Append(added, legs)
    /\ call' = [op |-> "Strategy", name |-> name, legs |-> legs]
    /\ ret' = Return(None)
    /\ UNCHANGED <<leg, strategy, bs, evaluations>>

\* Strategy(name, other.legs): the list object of an existing Strategy is
\* handed to the constructor, which binds it without copying.
NewStrategyWithLegsOf(name, other) ==
    /\ Len(strategies) < MaxStrategies
    /\ other \in 1 .. Len(strategies)
    /\ strategies' = Append(strategies, StrategyInit(name, strategies[other].legs))
    /\ added' = Append(added, LegsOf(other))
    /\ call' = [op |-> "Strategy", name |-> name, legs_of |-> other]
    /\ ret' = Return(None)
    /\ UNCHANGED <<leg, strategy, bs, evaluations, lists>>

\* strategies[s].add_leg(l)
AddLegTo(s, l) ==
    /\ s \in 1 .. Len(strategies)
    /\ Len(LegsOf(s)) < MaxLegs
    /\ lists' = list_append(strategies[s].legs, l)
    /\ added' = [added EXCEPT ![s] = Append(@, l)]
    /\ call' = [op |-> "add_leg", self |-> s, leg |-> l]
    /\ ret' = Return(None)
    /\ UNCHANGED <<leg, strategy, bs, evaluations, strategies>>

\* Constructions and add_leg calls on several Strategy objects, interleaved.
NextOwned ==
    \/ \E name \in StrategyNames : NewStrategyDefault(name)
    \/ \E name \in StrategyNames, legs \in LegLists : NewStrategyWithLegs(name, legs)
    \/ \E name \in StrategyNames, other \in 1 .. MaxStrategies :
          NewStrategyWithLegsOf(name, other)
    \/ \E s \in 1 .. MaxStrategies, l \in OwnedLegs : AddLegTo(s, l)

SpecOwned == InitLeg /\ [][NextOwned]_vars

\* Only constructions that hand no list object of another Strategy.
NextOwnedFresh ==
    \/ \E name \in StrategyNames : NewStrategyDefault(name)
    \/ \E name \in StrategyNames, legs \in LegLists : NewStrategyWithLegs(name, legs)
    \/ \E s \in 1 .. MaxStrategies, l \in OwnedLegs : AddLegTo(s, l)

SpecOwnedFresh == InitLeg /\ [][NextOwnedFresh]_vars

(***************************************************************************)
(* The calls of BlackScholes: construction, the prices and the Greeks.     *)
(***************************************************************************)
BSStrikes == Strikes \cup {0}

ExpiryDays == {-1, 0, 30}

Volatilities == {0, 25}

Rates == {0, 5}

\* BlackScholes(spot, strike, expiry_days, volatility, rate)
NewBlackScholes(spot, strike_, expiry_days, volatility, rate) ==
    /\ bs' = BlackScholes(spot, strike_, expiry_days, volatility, rate)
    /\ call' = [op |-> "BlackScholes"]
    /\ ret' = Return(None)
    /\ UNCHANGED <<leg, strategy, evaluations, strategies, lists, added>>

\* A call of a method of bs that takes no argument.
BSCall0(op, result) ==
    /\ bs # None
    /\ call' = [op |-> op]
    /\ ret' = result
    /\ UNCHANGED <<leg, strategy, bs, evaluations, strategies, lists, added>>

\* A call of a method of bs that takes an option type.
BSCall1(op, option_type, result) ==
    /\ bs # None
    /\ call' = [op |-> op, option_type |-> option_type]
    /\ ret' = result
    /\ UNCHANGED <<leg, strategy, bs, evaluations, strategies, lists, added>>

CallPrice == BSCall0("call_price", call_price(bs))

PutPrice == BSCall0("put_price", put_price(bs))

Gamma == BSCall0("gamma", gamma(bs))

Vega == BSCall0("vega", vega(bs))

Price(option_type) == BSCall1("price", option_type, price(bs, option_type))

Delta(option_type) == BSCall1("delta", option_type, delta(bs, option_type))

Theta(option_type) == BSCall1("theta", option_type, theta(bs, option_type))

Rho(option_type) == BSCall1("rho", option_type, rho(bs, option_type))

Greeks(option_type) == BSCall1("greeks", option_type, greeks(bs, option_type))

Summary(option_type) == BSCall1("summary", option_type, summary(bs, option_type))

NextBS ==
    \/ \E spot \in Spots, k \in BSStrikes, d \in ExpiryDays, v \in Volatilities, r \in Rates :
          NewBlackScholes(spot, k, d, v, r)
    \/ CallPrice
    \/ PutPrice
    \/ Gamma
    \/ Vega
    \/ \E option_type \in OptionTypes : Price(option_type)
    \/ \E option_type \in OptionTypes : Delta(option_type)
    \/ \E option_type \in OptionTypes : Theta(option_type)
    \/ \E option_type \in OptionTypes : Rho(option_type)
    \/ \E option_type \in OptionTypes : Greeks(option_type)
    \/ \E option_type \in OptionTypes : Summary(option_type)

SpecBS == InitLeg /\ [][NextBS]_vars

(***************************************************************************)
(* A run of the command line: main parses the arguments and calls          *)
(* build_strategy, which first builds its BlackScholes objects and then    *)
(* takes the branch of the strategy; main then evaluates the Strategy with *)
(* the defaults of pnl_at_expiry and, with --greeks, computes the Greeks   *)
(* of each leg.  build_strategy can also be called directly with a         *)
(* namespace that argparse has not seen.  `bs` holds, as bs.bs_models, the *)
(* list of BlackScholes objects constructed last.                          *)
(***************************************************************************)
\* The lists of strikes given on the command line: up to four.
CliStrikes == UNION {[1 .. n -> Strikes] : n \in 0 .. 4}

\* The namespaces: a known or unknown strategy, at expiry (where the premiums
\* are the intrinsic values), the default volatility 0.25 and rate 0.05 in
\* hundredths.
CliArgs ==
    [strategy : StrategyKinds \cup {"collar"}, spot : Strikes, strikes : CliStrikes,
     expiry : {0}, volatility : {25}, rate : {5}, greeks : BOOLEAN]

\* args = parser.parse_args()
MainParseArgs(args) ==
    /\ call = NoCall
    /\ call' = [op |-> "parse_args", args |-> args, via |-> "main"]
    /\ ret' = parse_args(args)
    /\ UNCHANGED <<leg, strategy, bs, evaluations, strategies, lists, added>>

\* build_strategy(args), lines 24-32: from main after parse_args has returned,
\* or called directly.
BuildBsModels(args) ==
    /\ \/ call = NoCall /\ ~args.greeks
       \/ call.op = "parse_args" /\ ret = Return(args)
    /\ bs' = [bs_models |-> bs_models(args)]
    /\ call' = [op |-> "bs_models", args |-> args,
                via |-> IF call = NoCall THEN "direct" ELSE "main"]
    /\ ret' = Return(None)
    /\ UNCHANGED <<leg, strategy, evaluations, strategies, lists, added>>

\* build_strategy(args), lines 34-104: the branch of the strategy returns the
\* Strategy, exits, or lets an exception through.
BuildStrategyBranch ==
    /\ call.op = "bs_models"
    /\ LET r == build_strategy_branch(call.args, bs.bs_models)
       IN  /\ strategy' = IF r.kind = "return" THEN r.value ELSE strategy
           /\ ret' = IF r.kind = "return" THEN Return(None) ELSE r
    /\ call' = [call EXCEPT !.op = "build_strategy"]
    /\ UNCHANGED <<leg, bs, evaluations, strategies, lists, added>>

\* pnl = strategy.pnl_at_expiry() in main.
MainPnlAtExpiry ==
    /\ call.op = "build_strategy"
    /\ call.via = "main"
    /\ ret.kind = "return"
    /\ call' = [op |-> "pnl_at_expiry", spot_range |-> None,
                num_points |-> DefaultNumPoints, args |-> call.args, via |-> call.via]
    /\ ret' = pnl_at_expiry(strategy, None, DefaultNumPoints)
    /\ evaluations' = evaluations \cup {Evaluation(None, DefaultNumPoints, ret')}
    /\ UNCHANGED <<leg, strategy, bs, strategies, lists, added>>

\* The loop of main under --greeks: a BlackScholes object for each leg and
\* its greeks(leg.option_type).
MainGreeks ==
    /\ call.op = "pnl_at_expiry"
    /\ "args" \in DOMAIN call
    /\ call.args.greeks
    /\ ret.kind = "return"
    /\ bs' = [bs_models |->
                 [i \in 1 .. Len(strategy.legs) |->
                     BlackScholes(call.args.spot, strategy.legs[i].strike,
                                  call.args.expiry, call.args.volatility, call.args.rate)]]
    /\ call' = [op |-> "print_greeks", args |-> call.args, via |-> call.via]
    /\ ret' = Priced([i \in 1 .. Len(strategy.legs) |->
                         greeks(bs'.bs_models[i], strategy.legs[i].option_type)], None)
    /\ UNCHANGED <<leg, strategy, evaluations, strategies, lists, added>>

NextCli ==
    \/ \E args \in CliArgs : MainParseArgs(args)
    \/ \E args \in CliArgs : BuildBsModels(args)
    \/ BuildStrategyBranch
    \/ MainPnlAtExpiry
    \/ MainGreeks

SpecCli == InitLeg /\ [][NextCli]_vars

(***************************************************************************)
(* The claims.                                                             *)
(***************************************************************************)
PnlCalled == call.op = "pnl_at_expiry"

\* C1: pnl_at_expiry on a Strategy with no legs raises ValueError, whatever
\* spot_range and num_points are, and returns no PnLResult.
C1_EmptyStrategyRaises ==
    (PnlCalled /\ strategy.legs = <<>>) => ret = Raise("ValueError")

C1_Witness ==
    /\ PnlCalled
    /\ strategy.legs = <<>>
    /\ call.spot_range # None
    /\ call.spot_range = <<0, 4>>
    /\ call.num_points = 3
    /\ ret.kind = "raise"

\* The arguments of an OptionLeg construction that the claim C2 rejects.
BadLegArgs(a) ==
    \/ a.option_type \notin {"call", "put"}
    \/ a.position \notin {"long", "short"}
    \/ a.quantity < 1

\* C2: constructing an OptionLeg raises ValueError exactly when option_type is
\* not 'call' or 'put', or position is not 'long' or 'short', or quantity < 1;
\* every other construction returns the leg with the fields given.
C2_LegValidation ==
    call.op = "OptionLeg" =>
        /\ BadLegArgs(call.args) => ret = Raise("ValueError")
        /\ ~BadLegArgs(call.args) => (ret = Return(call.args) /\ leg = call.args)

C2_Witness ==
    /\ call.op = "OptionLeg"
    /\ call.args.option_type = "call"
    /\ call.args.position = "long"
    /\ call.args.quantity = 0
    /\ ret = Raise("ValueError")

\* C3: price, delta, theta, rho, greeks and summary raise ValueError when the
\* option type is neither 'call' nor 'put', for every BlackScholes object.
C3_InvalidTypeRaises ==
    (/\ call.op \in {"price", "delta", "theta", "rho", "greeks", "summary"}
     /\ call.option_type \notin {"call", "put"})
        => ret = Raise("ValueError")

\* C4: with expiry_days <= 0, call_price returns exactly max(spot - strike, 0)
\* and put_price exactly max(strike - spot, 0), on the boundary branch: the
\* general formula is not evaluated.
C4_ExpiryBoundary ==
    (bs # None /\ bs.expiry_days <= 0) =>
        /\ call.op = "call_price" =>
              ret = Return([path |-> "boundary",
                            value |-> IF bs.spot > bs.strike
                                      THEN bs.spot - bs.strike ELSE 0])
        /\ call.op = "put_price" =>
              ret = Return([path |-> "boundary",
                            value |-> IF bs.strike > bs.spot
                                      THEN bs.strike - bs.spot ELSE 0])

C4_Witness ==
    /\ call.op = "call_price"
    /\ bs.expiry_days = 0
    /\ bs.volatility = 0
    /\ bs.spot > bs.strike
    /\ ret.kind = "return"
    /\ ret.value.value = bs.spot - bs.strike

\* The payoff of a leg held long, from the intrinsic value at the spot.
LongPayoff(l, spot) ==
    LET intrinsic == IF l.option_type = "call"
                     THEN (IF spot > l.strike THEN spot - l.strike ELSE 0)
                     ELSE (IF l.strike > spot THEN l.strike - spot ELSE 0)
    IN  (intrinsic - l.premium) * l.quantity

\* The leg with the opposite position and the same other fields.
Opposite(l) ==
    [l EXCEPT !.position = IF @ = "long" THEN "short" ELSE "long"]

\* C5: payoff_at_expiry(spot) is direction * (intrinsic - premium) * quantity,
\* so the payoff of a short leg is the negation of the payoff of the long leg
\* with the same type, strike, premium and quantity.
C5_LegPayoff ==
    call.op = "payoff_at_expiry" =>
        /\ ret.value = IF leg.position = "long"
                       THEN LongPayoff(leg, call.spot)
                       ELSE -LongPayoff(leg, call.spot)
        /\ payoff_at_expiry(Opposite(leg), call.spot, 1) = -ret.value

C5_Witness ==
    /\ call.op = "payoff_at_expiry"
    /\ leg.position = "short"
    /\ leg.option_type = "call"
    /\ leg.quantity = 2
    /\ call.spot > leg.strike + leg.premium
    /\ ret.value < 0

\* C6: payoff_array(spots) has the length of spots, and its i-th element is
\* payoff_at_expiry(spots[i]).
C6_VectorScalar ==
    call.op = "payoff_array" =>
        /\ Len(ret.value) = Len(call.spots)
        /\ \A i \in 1 .. Len(call.spots) :
              ret.value[i] = payoff_at_expiry(leg, call.spots[i], 1)

C6_Witness ==
    /\ call.op = "payoff_array"
    /\ leg.option_type = "put"
    /\ Len(call.spots) = 2
    /\ ret.value[1] > 0
    /\ ret.value[2] < 0

\* The premiums paid for the legs of a position, each times its quantity.
PremiumOf(legs, position) ==
    SeqSum([i \in 1 .. Len(legs) |->
              IF legs[i].position = position
              THEN legs[i].premium * legs[i].quantity ELSE 0])

\* C7: after any sequence of add_leg calls, net_premium is the premiums paid
\* for the long legs minus the premiums received for the short legs, each
\* times the quantity of its leg; it is 0 for a Strategy with no legs.
C7_NetPremium ==
    /\ net_premium(strategy)
          = PremiumOf(strategy.legs, "long") - PremiumOf(strategy.legs, "short")
    /\ strategy.legs = <<>> => net_premium(strategy) = 0

C7_Witness ==
    /\ call.op = "add_leg"
    /\ Len(strategy.legs) = 2
    /\ strategy.legs[1].position = "long"
    /\ strategy.legs[2].position = "short"
    /\ strategy.legs[2].quantity = 2
    /\ net_premium(strategy) = -1

\* Some sample of the returned grid lies at the spot x (an integer).
OnGrid(x) == \E i \in 1 .. Len(ret.value.spots) : ret.value.spots[i] = x * ret.value.unit

\* Some sample of the returned grid lies strictly between x and y.
InsideGrid(x, y) ==
    \E i \in 1 .. Len(ret.value.spots) :
        /\ ret.value.spots[i] > x * ret.value.unit
        /\ ret.value.spots[i] < y * ret.value.unit

\* The case of C8: a bull call spread with lower < upper and a net debit d,
\* 0 < d < upper - lower, evaluated at two points or more over a range that
\* starts at or below the lower strike and ends at or above the upper strike.
BullCase ==
    /\ PnlCalled
    /\ strategy.name = "Bull Call Spread"
    /\ call.spot_range # None
    /\ call.num_points >= 2
    /\ LET lower == strategy.legs[1].strike
           upper == strategy.legs[2].strike
           d     == strategy.legs[1].premium - strategy.legs[2].premium
       IN  /\ lower < upper
           /\ 0 < d
           /\ d < upper - lower
           /\ call.spot_range[1] <= lower
           /\ call.spot_range[2] >= upper

BullProfit == (strategy.legs[2].strike - strategy.legs[1].strike)
                 - (strategy.legs[1].premium - strategy.legs[2].premium)

BullLoss == -(strategy.legs[1].premium - strategy.legs[2].premium)

BullBreakeven == strategy.legs[1].strike
                    + (strategy.legs[1].premium - strategy.legs[2].premium)

\* C8 as claimed: in that case max_profit = (upper - lower) - d,
\* max_loss = -d, and there is exactly one breakeven.
C8_AsClaimed ==
    BullCase =>
        /\ ret.kind = "return"
        /\ ret.value.max_profit = BullProfit * ret.value.unit
        /\ ret.value.max_loss = BullLoss * ret.value.unit
        /\ Len(ret.value.breakevens) = 1

\* C8 as amended: in that case max_profit = (upper - lower) - d and
\* max_loss = -d; there is exactly one breakeven when no sample of the grid
\* lies at the spot lower + d, and none when one does.
C8_BullCallSpread ==
    BullCase =>
        /\ ret.kind = "return"
        /\ ret.value.max_profit = BullProfit * ret.value.unit
        /\ ret.value.max_loss = BullLoss * ret.value.unit
        /\ Len(ret.value.breakevens) = IF OnGrid(BullBreakeven) THEN 0 ELSE 1

C8_Witness ==
    /\ BullCase
    /\ call.num_points = 4
    /\ ret.value.max_profit = ret.value.unit
    /\ ret.value.max_loss = -ret.value.unit
    /\ ~OnGrid(BullBreakeven)
    /\ Len(ret.value.breakevens) = 1

\* The case of C9: a long straddle at strike K with premiums c + p > 0,
\* evaluated at two points or more over a range that starts below
\* K - (c + p) and ends above K + (c + p).
StraddleCost == strategy.legs[1].premium + strategy.legs[2].premium

StraddleCase ==
    /\ PnlCalled
    /\ strategy.name = "Long Straddle"
    /\ call.spot_range # None
    /\ call.num_points >= 2
    /\ StraddleCost > 0
    /\ call.spot_range[1] < strategy.legs[1].strike - StraddleCost
    /\ call.spot_range[2] > strategy.legs[1].strike + StraddleCost

\* C9 as claimed: in that case there are exactly two breakevens, one below K
\* and one above K.
C9_AsClaimed ==
    StraddleCase =>
        /\ ret.kind = "return"
        /\ Len(ret.value.breakevens) = 2
        /\ ret.value.breakevens[1] < 100 * strategy.legs[1].strike
        /\ ret.value.breakevens[2] > 100 * strategy.legs[1].strike

\* The grid resolves the straddle: a sample lies strictly between the spots
\* K - (c + p) and K + (c + p), and no sample lies at either.
StraddleResolved ==
    /\ InsideGrid(strategy.legs[1].strike - StraddleCost,
                  strategy.legs[1].strike + StraddleCost)
    /\ ~OnGrid(strategy.legs[1].strike - StraddleCost)
    /\ ~OnGrid(strategy.legs[1].strike + StraddleCost)

\* C9 as amended: in that case, when the grid resolves the straddle, there are
\* exactly two breakevens, in ascending order; when K is a sample of the grid
\* too, they are K - (c + p) and K + (c + p), one below K and one above.
C9_Straddle ==
    StraddleCase =>
        /\ ret.kind = "return"
        /\ StraddleResolved =>
              /\ Len(ret.value.breakevens) = 2
              /\ ret.value.breakevens[1] <= ret.value.breakevens[2]
              /\ OnGrid(strategy.legs[1].strike) =>
                    /\ ret.value.breakevens[1]
                          = 100 * (strategy.legs[1].strike - StraddleCost)
                    /\ ret.value.breakevens[2]
                          = 100 * (strategy.legs[1].strike + StraddleCost)

C9_Witness ==
    /\ StraddleCase
    /\ StraddleResolved
    /\ OnGrid(strategy.legs[1].strike)
    /\ call.num_points = 3
    /\ ret.value.breakevens = <<100, 300>>

\* A grid that resolves the straddle and yet puts both breakevens above K.
C9_BothAbove ==
    /\ StraddleCase
    /\ StraddleResolved
    /\ Len(ret.value.breakevens) = 2
    /\ ret.value.breakevens[1] > 100 * strategy.legs[1].strike

\* A sequence of numbers in ascending order.
Ascending(b) == \A i \in 1 .. Len(b), j \in 1 .. Len(b) : i < j => b[i] <= b[j]

\* C10 as claimed: the breakevens of every PnLResult returned are in ascending
\* order, for any spot_range, supplied or derived, and any num_points.
C10_AsClaimed ==
    (PnlCalled /\ ret.kind = "return") => Ascending(ret.value.breakevens)

\* C10 as amended: the breakevens of every PnLResult returned are in ascending
\* order when the spot_range is derived, or supplied with its first end not
\* above its second.
C10_BreakevensAscending ==
    (/\ PnlCalled
     /\ ret.kind = "return"
     /\ (call.spot_range = None \/ call.spot_range[1] <= call.spot_range[2]))
        => Ascending(ret.value.breakevens)

C10_Witness ==
    /\ PnlCalled
    /\ ret.kind = "return"
    /\ call.spot_range # None
    /\ call.spot_range = <<0, 4>>
    /\ Len(ret.value.breakevens) = 2
    /\ ret.value.breakevens[1] < ret.value.breakevens[2]

\* The fields of the leg are those a construction accepts.
ValidLeg(l) ==
    /\ l.option_type \in {"call", "put"}
    /\ l.position \in {"long", "short"}
    /\ l.quantity >= 1

\* C11: every OptionLeg that exists, after any sequence of operations on it,
\* has option_type in {'call', 'put'}, position in {'long', 'short'} and
\* quantity >= 1.
C11_LegAlwaysValid == leg # None => ValidLeg(leg)

\* C12: pnl_at_expiry, returning or raising, leaves the Strategy as it was:
\* its name, its list of legs, their order and every field of every leg; so
\* each of the evaluations of one shared Strategy, in any order, has handed
\* out what a single evaluation with the same arguments returns, and two
\* evaluations with the same arguments the same result.
C12_NoMutation ==
    [][PnlCalled' =>
          /\ strategy' = strategy
          /\ \A e \in evaluations' :
                e.ret = pnl_at_expiry(strategy,
                                      IF e.spot_range = <<>> THEN None ELSE e.spot_range,
                                      e.num_points)
          /\ \A e1, e2 \in evaluations' :
                (e1.spot_range = e2.spot_range /\ e1.num_points = e2.num_points)
                    => e1.ret = e2.ret]_vars

C12_Witness ==
    /\ PnlCalled
    /\ Len(strategy.legs) = 2
    /\ strategy.legs[1].strike > strategy.legs[2].strike
    /\ Cardinality(evaluations) = 4
    /\ \E e \in evaluations : e.ret.kind = "raise"
    /\ \E e \in evaluations : e.ret.kind = "return" /\ Len(e.ret.value.breakevens) = 1

\* The leg a preset is claimed to add: quantity 1 unless stated.
ClaimedLeg(option_type, strike_, position, premium) ==
    [option_type |-> option_type, strike |-> strike_, position |-> position,
     premium |-> premium, quantity |-> 1]

\* The legs each preset is claimed to return, from the arguments of the call.
ClaimedLegs ==
    CASE call.op = "long_call" ->
           <<ClaimedLeg("call", call.args.strike, "long", call.args.premium)>>
      [] call.op = "long_put" ->
           <<ClaimedLeg("put", call.args.strike, "long", call.args.premium)>>
      [] call.op = "bull_call_spread" ->
           <<ClaimedLeg("call", call.lower_strike, "long", call.lower_premium),
             ClaimedLeg("call", call.upper_strike, "short", call.upper_premium)>>
      [] call.op = "bear_put_spread" ->
           <<ClaimedLeg("put", call.args.upper_strike, "long", call.args.upper_premium),
             ClaimedLeg("put", call.args.lower_strike, "short", call.args.lower_premium)>>
      [] call.op = "straddle" ->
           <<ClaimedLeg("call", call.strike, "long", call.call_premium),
             ClaimedLeg("put", call.strike, "long", call.put_premium)>>
      [] call.op = "strangle" ->
           <<ClaimedLeg("call", call.args.call_strike, "long", call.args.call_premium),
             ClaimedLeg("put", call.args.put_strike, "long", call.args.put_premium)>>
      [] call.op = "iron_condor" ->
           <<ClaimedLeg("put", call.args.put_lower, "long", call.args.put_lower_prem),
             ClaimedLeg("put", call.args.put_upper, "short", call.args.put_upper_prem),
             ClaimedLeg("call", call.args.call_lower, "short", call.args.call_lower_prem),
             ClaimedLeg("call", call.args.call_upper, "long", call.args.call_upper_prem)>>
      [] call.op = "butterfly_spread" ->
           <<ClaimedLeg("call", call.args.lower, "long", call.args.lower_prem),
             [ClaimedLeg("call", call.args.middle, "short", call.args.middle_prem)
                 EXCEPT !.quantity = 2],
             ClaimedLeg("call", call.args.upper, "long", call.args.upper_prem)>>

\* The names of the Strategies the presets return.
PresetNames ==
    {"Long Call", "Long Put", "Bull Call Spread", "Bear Put Spread",
     "Long Straddle", "Long Strangle", "Iron Condor", "Butterfly Spread"}

\* C14: each preset returns a Strategy whose legs are, in order, exactly the
\* legs listed for it, each with the strike and the premium supplied for it
\* (whatever the premium and the order of the strikes), the middle leg of the
\* butterfly with quantity 2 and every other leg with quantity 1.
C14_PresetLegs ==
    call.op # "none" =>
        /\ strategy.legs = ClaimedLegs
        /\ strategy.name \in PresetNames
        /\ \A i \in 1 .. Len(strategy.legs) : ValidLeg(strategy.legs[i])

C14_Witness ==
    /\ call.op = "butterfly_spread"
    /\ call.args.lower > call.args.upper
    /\ call.args.middle_prem = -1
    /\ Len(strategy.legs) = 3
    /\ strategy.legs[2].quantity = 2
    /\ strategy.legs[2].premium = -1

\* An iron condor built from strikes out of order and a negative premium.
C14_IronCondorReached ==
    /\ call.op = "iron_condor"
    /\ call.args.put_lower > call.args.put_upper
    /\ call.args.call_upper_prem = -1
    /\ Len(strategy.legs) = 4

\* The samples i and i+1 have strictly opposite signs.
OppositeSigns(pnl, i) ==
    \/ pnl[i] < 0 /\ pnl[i + 1] > 0
    \/ pnl[i] > 0 /\ pnl[i + 1] < 0

\* The adjacent pairs of the grid with strictly opposite signs.
SignChanges(pnl) == {i \in 1 .. Len(pnl) - 1 : OppositeSigns(pnl, i)}

\* The k-th of them, from the left.
NthSignChange(pnl, k) ==
    CHOOSE i \in SignChanges(pnl) :
        Cardinality({j \in SignChanges(pnl) : j < i}) = k - 1

\* The linear-interpolation zero of the pair i, as ZeroNum / ZeroDen in the
\* units of the grid: spot[i] + |pnl[i]| / (|pnl[i]| + |pnl[i+1]|) * (spot[i+1] - spot[i]).
ZeroDen(pnl, i) == Abs(pnl[i]) + Abs(pnl[i + 1])

ZeroNum(spots, pnl, i) ==
    spots[i] * ZeroDen(pnl, i) + Abs(pnl[i]) * (spots[i + 1] - spots[i])

\* e hundredths is the number num / den (den > 0) rounded to 2 decimals: no
\* hundredth is nearer, and of two equally near e is the even one.
IsRounded2(e, num, den) ==
    /\ 2 * Abs(100 * num - e * den) <= den
    /\ 2 * Abs(100 * num - e * den) = den => e % 2 = 0

\* The zero of the pair i lies strictly between spot[i] and spot[i+1].
ZeroBetween(spots, pnl, i) ==
    /\ Min2(spots[i], spots[i + 1]) * ZeroDen(pnl, i) < ZeroNum(spots, pnl, i)
    /\ ZeroNum(spots, pnl, i) < Max2(spots[i], spots[i + 1]) * ZeroDen(pnl, i)

\* The entry of e hundredths lies between spot[i] and spot[i+1].
EntryBetween(e, spots, u, i) ==
    /\ 100 * Min2(spots[i], spots[i + 1]) <= e * u
    /\ e * u <= 100 * Max2(spots[i], spots[i + 1])

\* The breakevens of the returned PnLResult are one entry for each pair with
\* strictly opposite signs, from the left, each the rounded zero of its pair.
OneEntryPerSignChange ==
    LET r == ret.value
    IN  /\ Len(r.breakevens) = Cardinality(SignChanges(r.pnl))
        /\ \A k \in 1 .. Len(r.breakevens) :
              LET i == NthSignChange(r.pnl, k)
              IN  IsRounded2(r.breakevens[k], ZeroNum(r.spots, r.pnl, i),
                             r.unit * ZeroDen(r.pnl, i))

\* C15 as claimed: the breakevens are one entry for each adjacent pair of
\* samples with strictly opposite signs and no other; the entry of a pair is
\* its linear-interpolation zero rounded to 2 decimals, and it lies between
\* spot[i] and spot[i+1].
C15_AsClaimed ==
    (PnlCalled /\ ret.kind = "return") =>
        /\ OneEntryPerSignChange
        /\ \A k \in 1 .. Len(ret.value.breakevens) :
              EntryBetween(ret.value.breakevens[k], ret.value.spots, ret.value.unit,
                           NthSignChange(ret.value.pnl, k))

\* C15 as amended: the breakevens are one entry for each adjacent pair of
\* samples with strictly opposite signs and no other (a pair with a sample
\* that is exactly zero has none); the entry of a pair is its
\* linear-interpolation zero rounded to 2 decimals; the zero, before it is
\* rounded, lies strictly between spot[i] and spot[i+1].
C15_Breakevens ==
    (PnlCalled /\ ret.kind = "return") =>
        /\ OneEntryPerSignChange
        /\ \A i \in SignChanges(ret.value.pnl) :
              ZeroBetween(ret.value.spots, ret.value.pnl, i)

C15_Witness ==
    /\ PnlCalled
    /\ ret.kind = "return"
    /\ call.num_points = 3
    /\ ret.value.pnl[1] = 0
    /\ ret.value.pnl[2] < 0
    /\ ret.value.pnl[3] > 0
    /\ Len(ret.value.breakevens) = 1
    /\ ZeroBetween(ret.value.spots, ret.value.pnl, 2)
    /\ EntryBetween(ret.value.breakevens[1], ret.value.spots, ret.value.unit, 2)

\* A rounded entry that has left the pair of samples it belongs to.
C15_EntryOutside ==
    /\ PnlCalled
    /\ ret.kind = "return"
    /\ Len(ret.value.breakevens) = 1
    /\ ~EntryBetween(ret.value.breakevens[1], ret.value.spots, ret.value.unit,
                      NthSignChange(ret.value.pnl, 1))

\* pnl_at_expiry was called and returned a PnLResult.
PnlReturned == PnlCalled /\ ret.kind = "return"

\* C16: for every PnLResult returned on a Strategy with legs, pnl has the
\* length of spots, and pnl[i] is the sum over the legs, in the order they
\* were added, of leg.payoff_at_expiry(spots[i]).
C16_PointwiseSum ==
    PnlReturned =>
        /\ strategy.legs # <<>>
        /\ Len(ret.value.pnl) = Len(ret.value.spots)
        /\ \A i \in 1 .. Len(ret.value.spots) :
              ret.value.pnl[i]
                 = SeqSum([k \in 1 .. Len(strategy.legs) |->
                             payoff_at_expiry(strategy.legs[k], ret.value.spots[i],
                                              ret.value.unit)])

C16_Witness ==
    /\ PnlReturned
    /\ Len(strategy.legs) = 2
    /\ strategy.legs[1].option_type = "call"
    /\ strategy.legs[2].option_type = "put"
    /\ strategy.legs[2].position = "short"
    /\ call.num_points = 4
    /\ ret.value.pnl[1] < 0
    /\ ret.value.pnl[4] > 0

\* C17: for every PnLResult returned, max_profit is the largest value of pnl
\* and max_loss the smallest: max_loss <= pnl[i] <= max_profit for every i, and
\* each of the two is the value of pnl at some sample.
C17_Extrema ==
    PnlReturned =>
        /\ \A i \in 1 .. Len(ret.value.pnl) :
              /\ ret.value.max_loss <= ret.value.pnl[i]
              /\ ret.value.pnl[i] <= ret.value.max_profit
        /\ \E i \in 1 .. Len(ret.value.pnl) : ret.value.pnl[i] = ret.value.max_profit
        /\ \E i \in 1 .. Len(ret.value.pnl) : ret.value.pnl[i] = ret.value.max_loss

C17_Witness ==
    /\ PnlReturned
    /\ call.num_points = 3
    /\ ret.value.pnl[2] = ret.value.max_profit
    /\ ret.value.pnl[1] < ret.value.pnl[2]
    /\ ret.value.pnl[3] < ret.value.pnl[2]
    /\ ret.value.pnl[3] = ret.value.max_loss
    /\ ret.value.max_loss < 0

\* The range of C19 for the legs of the Strategy, as numerators over
\* RangeDen = 5 * (number of legs): center is the mean of the strikes, spread
\* the largest strike minus the smallest, margin the larger of spread and
\* 0.2 * center.
StrikeSum == SeqSum([k \in 1 .. Len(strategy.legs) |-> strategy.legs[k].strike])

StrikeSpread ==
    LET strikes == {strategy.legs[k].strike : k \in 1 .. Len(strategy.legs)}
        hi == CHOOSE x \in strikes : \A y \in strikes : y <= x
        lo == CHOOSE x \in strikes : \A y \in strikes : y >= x
    IN  hi - lo

CenterNum == 5 * StrikeSum

MarginNum ==
    IF 5 * Len(strategy.legs) * StrikeSpread >= StrikeSum
    THEN 5 * Len(strategy.legs) * StrikeSpread
    ELSE StrikeSum

\* The ends of the range of the call, supplied or derived, as numerators
\* over RangeDen.
RangeDen == IF call.spot_range = None THEN 5 * Len(strategy.legs) ELSE 1

RangeLo == IF call.spot_range = None THEN CenterNum - MarginNum ELSE call.spot_range[1]

RangeHi == IF call.spot_range = None THEN CenterNum + MarginNum ELSE call.spot_range[2]

\* The samples are evenly spaced.
EvenlySpaced(spots) ==
    \A i \in 1 .. Len(spots) - 2 :
        spots[i + 1] - spots[i] = spots[i + 2] - spots[i + 1]

\* The first sample is the first end of the range, the last sample the second.
FirstIsLo == ret.value.spots[1] * RangeDen = RangeLo * ret.value.unit

LastIsHi == ret.value.spots[Len(ret.value.spots)] * RangeDen = RangeHi * ret.value.unit

\* C18 as claimed: the grid of every PnLResult returned has num_points
\* samples, is ascending and evenly spaced, and starts at the lower end of
\* the range and stops at the upper end.
C18_AsClaimed ==
    PnlReturned =>
        /\ Len(ret.value.spots) = call.num_points
        /\ Ascending(ret.value.spots)
        /\ EvenlySpaced(ret.value.spots)
        /\ FirstIsLo
        /\ LastIsHi

\* C18 as amended: the grid of every PnLResult returned has num_points
\* samples, is evenly spaced and starts at the first end of the range; with
\* two samples or more it stops at the second end; it is ascending when the
\* first end is not above the second, and a single sample is the first end.
C18_Grid ==
    PnlReturned =>
        /\ Len(ret.value.spots) = call.num_points
        /\ EvenlySpaced(ret.value.spots)
        /\ FirstIsLo
        /\ call.num_points >= 2 => LastIsHi
        /\ RangeLo <= RangeHi => Ascending(ret.value.spots)

C18_Witness ==
    /\ PnlReturned
    /\ call.spot_range # None
    /\ call.spot_range = <<0, 4>>
    /\ call.num_points = 4
    /\ ret.value.unit = 3
    /\ ret.value.spots = <<0, 4, 8, 12>>

\* C19: without a spot_range, pnl_at_expiry on a Strategy with legs samples
\* the range (center - margin, center + margin), center the mean of the
\* strikes and margin the larger of their spread and 0.2 * center; the range
\* is at least 20% of center wide, also when all legs share one strike.
C19_AutoRange ==
    (PnlCalled /\ call.spot_range = None /\ strategy.legs # <<>>) =>
        /\ AutoSpotRange(strategy) = <<CenterNum - MarginNum, CenterNum + MarginNum>>
        /\ AutoUnit(strategy) = RangeDen
        /\ 5 * (RangeHi - RangeLo) >= CenterNum
        /\ ret.kind = "return" =>
              /\ FirstIsLo
              /\ call.num_points >= 2 => LastIsHi

C19_Witness ==
    /\ PnlReturned
    /\ call.spot_range = None
    /\ Len(strategy.legs) = 2
    /\ strategy.legs[1].strike = strategy.legs[2].strike
    /\ call.num_points = 3
    /\ ret.value.spots[1] < ret.value.spots[3]
    /\ 5 * (ret.value.spots[3] - ret.value.spots[1]) = 2 * ret.value.spots[2]

\* The number of strikes the strategy kind needs.
RequiredStrikes(kind) ==
    CASE kind \in {"long_call", "long_put", "straddle"} -> 1
      [] kind \in {"bull_call_spread", "bear_put_spread", "strangle"} -> 2
      [] kind = "butterfly" -> 3
      [] kind = "iron_condor" -> 4

\* The arguments pass the validation: a known kind with the strikes it needs.
ArgsValid(args) ==
    /\ args.strategy \in StrategyKinds
    /\ Len(args.strikes) >= RequiredStrikes(args.strategy)

\* A constructor of the core has been invoked in this run.
CoreInvoked ==
    \/ bs # None /\ Len(bs.bs_models) > 0
    \/ strategy # None

\* C20: in a run of the command line whose arguments fail the validation (an
\* unknown kind, or fewer strikes than the kind needs), no BlackScholes,
\* OptionLeg or Strategy is ever constructed and nothing is evaluated; when
\* the parser has met an unknown kind, or build_strategy is through, the run
\* has exited with a non-zero status and a diagnostic on the error stream.
C20_ValidationFirst ==
    ("args" \in DOMAIN call /\ ~ArgsValid(call.args)) =>
        /\ ~CoreInvoked
        /\ evaluations = {}
        /\ (\/ call.op = "build_strategy"
            \/ call.op = "parse_args" /\ call.args.strategy \notin StrategyKinds) =>
              /\ ret.kind = "exit"
              /\ ret.status # 0
              /\ ret.stderr # ""

\* The validation has failed and the run has exited, after BlackScholes
\* objects were constructed.
C20_ExitAfterConstruction ==
    /\ call.op = "build_strategy"
    /\ call.via = "main"
    /\ call.args.strategy = "iron_condor"
    /\ Len(call.args.strikes) = 1
    /\ ret.kind = "exit"
    /\ ret.status = 1
    /\ Len(bs.bs_models) = 1
    /\ strategy = None

\* A run of main that builds, evaluates and prints the Greeks.
C20_FullRun ==
    /\ call.op = "print_greeks"
    /\ call.args.strategy = "iron_condor"
    /\ ret.kind = "return"
    /\ Len(strategy.legs) = 4
    /\ Cardinality(evaluations) = 1

(***************************************************************************)
(* C21.  With several Strategy objects, after any interleaving of          *)
(* constructions and add_leg calls the legs of every Strategy are exactly  *)
(* the legs handed to that Strategy, in call order and with duplicates     *)
(* kept; so an add_leg on one Strategy never shows in the legs of another. *)
(***************************************************************************)
C21_OwnsLegs ==
    \A s \in 1 .. Len(strategies) : LegsOf(s) = added[s]

\* Two Strategy objects bound to one list object, after an add_leg on either.
C21_SharedListAppended ==
    \E s, t \in 1 .. Len(strategies) :
        /\ s # t
        /\ strategies[s].legs = strategies[t].legs
        /\ call.op = "add_leg"
        /\ call.self = s
        /\ LegsOf(t) # added[t]

\* Two Strategy objects with lists of their own, one of them holding the same
\* leg twice, the other left as it was constructed.
C21_OwnListsAppended ==
    \E s, t \in 1 .. Len(strategies) :
        /\ s # t
        /\ strategies[s].legs # strategies[t].legs
        /\ Len(LegsOf(s)) = 2
        /\ LegsOf(s)[1] = LegsOf(s)[2]
        /\ LegsOf(t) = <<>>

====
